---- MODULE Spec2Model ----
(***************************************************************************)
(* A model of package upnp (upnp.go): the IGD handle upnpDevice with its   *)
(* operations ExternalIP, Forward, Clear, Location and getInternalIP, and  *)
(* the constructors Discover and Load.                                     *)
(*                                                                         *)
(* Text is modelled as a sequence of tokens: "http://10.0.0.1:80/x" is     *)
(* <<"http", "://", "10.0.0.1", ":", "80", "/x">>.  Concatenation is \o.   *)
(* The router, the goupnp toolkit and the host's network stack are the     *)
(* collaborators the package calls; their answers are the nondeterministic *)
(* inputs of the actions.                                                  *)
(***************************************************************************)
EXTENDS Integers, Sequences, FiniteSets, TLC

\* ------------------------------------------------------------------------
\* Bounds and input domains
\* ------------------------------------------------------------------------

\* Operations started in one behaviour.
MaxOps == 4

\* Operations started in one behaviour of concurrent callers.
MaxConcOps == 3

Callers == {"c1", "c2"}

Ports == {9001, 9002}

\* Descriptions are never parsed: plain strings.
Descs == {"upnp test", ""}

None == "none"

\* ------------------------------------------------------------------------
\* IP addresses and networks (package net)
\* ------------------------------------------------------------------------

RECURSIVE Pow2(_)
Pow2(n) == IF n = 0 THEN 1 ELSE 2 * Pow2(n - 1)

\* The number of mask bits that fall in byte i (1..4) of a /prefix mask.
MaskBits(prefix, i) ==
    LET k == prefix - 8 * (i - 1)
    IN  IF k < 0 THEN 0 ELSE IF k > 8 THEN 8 ELSE k

\* b & mask, for the mask byte with n leading one bits.
AndMask(b, n) == b - (b % Pow2(8 - n))

\* (*net.IPNet).Contains: every byte of the two addresses agrees under the mask.
Contains(x, ip) ==
    \A i \in 1..4 :
        AndMask(x.IP[i], MaskBits(x.Prefix, i)) = AndMask(ip[i], MaskBits(x.Prefix, i))

\* net.IP.String for an IPv4 address: dotted decimal, one token.
IPString(ip) ==
    ToString(ip[1]) \o "." \o ToString(ip[2]) \o "." \o ToString(ip[3]) \o "."
        \o ToString(ip[4])

\* The IPv4 literals that occur in the model.
KnownIPs ==
    { <<192, 168, 1, 1>>, <<192, 168, 1, 254>>, <<10, 0, 0, 1>>,
      <<192, 168, 1, 50>>, <<192, 168, 1, 60>>, <<10, 0, 0, 5>>, <<127, 0, 0, 1>>,
      <<192, 168, 1, 70>> }

\* net.ParseIP: the address a text spells, or the nil IP (of length 0) when it
\* spells none (a DNS name, the empty string).
ParseIP(host) ==
    IF Len(host) = 1 /\ \E ip \in KnownIPs : IPString(ip) = host[1]
    THEN CHOOSE ip \in KnownIPs : IPString(ip) = host[1]
    ELSE <<>>

\* The position of the last ":" token of s, 0 when there is none.
LastColon(s) ==
    LET at == { i \in 1..Len(s) : s[i] = ":" }
    IN  IF at = {} THEN 0 ELSE CHOOSE i \in at : \A j \in at : j <= i

\* net.SplitHostPort: host and port around the last colon; without a colon it
\* fails ("missing port in address") and returns empty strings.
SplitHostPort(hostport) ==
    LET i == LastColon(hostport)
    IN  IF i = 0
        THEN [host |-> <<>>, port |-> <<>>, err |-> "missing port in address"]
        ELSE [host |-> SubSeq(hostport, 1, i - 1),
              port |-> SubSeq(hostport, i + 1, Len(hostport)),
              err  |-> "nil"]

\* ------------------------------------------------------------------------
\* URLs (package net/url)
\* ------------------------------------------------------------------------

\* Tokens that start a path.
PathTokens == {"/", "/rootDesc.xml", "/igd.xml"}

\* A percent sign that is not followed by two hex digits.
BadEscapes == {"%zz"}

\* strings.ToLower on a scheme.
ToLower(tok) == IF tok = "HTTP" THEN "http" ELSE tok

EmptyURL == [Scheme |-> "", Host |-> <<>>, Path |-> <<>>]

\* The position of the first path token of s, Len(s) + 1 when there is none.
PathStart(s) ==
    LET at == { i \in 1..Len(s) : s[i] \in PathTokens }
    IN  IF at = {} THEN Len(s) + 1 ELSE CHOOSE i \in at : \A j \in at : i <= j

\* url.Parse: fails on a bad escape and on a string that starts with a colon;
\* lower-cases the scheme; splits the rest into host and path.
url_Parse(rawurl) ==
    IF \E i \in 1..Len(rawurl) : rawurl[i] \in BadEscapes
    THEN [url |-> EmptyURL, err |-> "invalid URL escape"]
    ELSE IF Len(rawurl) > 0 /\ rawurl[1] = ":"
    THEN [url |-> EmptyURL, err |-> "missing protocol scheme"]
    ELSE IF Len(rawurl) >= 2 /\ rawurl[2] = "://"
    THEN LET rest == SubSeq(rawurl, 3, Len(rawurl))
             k    == PathStart(rest)
         IN  [url |-> [Scheme |-> ToLower(rawurl[1]),
                       Host   |-> SubSeq(rest, 1, k - 1),
                       Path   |-> SubSeq(rest, k, Len(rest))],
              err |-> "nil"]
    ELSE [url |-> [Scheme |-> "", Host |-> <<>>, Path |-> rawurl], err |-> "nil"]

\* (*url.URL).String
URL_String(u) ==
    (IF u.Scheme = "" THEN <<>> ELSE <<u.Scheme, "://">>) \o u.Host \o u.Path

\* ------------------------------------------------------------------------
\* The devices that can be on the local network
\* ------------------------------------------------------------------------

Devices == {"d1", "d2", "d3"}

Kinds == {"PPP", "IP"}

\* The LOCATION each device advertises for its description document.
DeviceLocation(d) ==
    CASE d = "d1" -> <<"http", "://", "192.168.1.1", ":", "5000", "/rootDesc.xml">>
      [] d = "d2" -> <<"http", "://", "10.0.0.1", ":", "49152", "/igd.xml">>
      [] d = "d3" -> <<"HTTP", "://", "192.168.1.254", "/igd.xml">>

\* The connection services each device's description lists.
DeviceServices(d) ==
    CASE d = "d1" -> {"PPP"}
      [] d = "d2" -> {"IP"}
      [] d = "d3" -> {"PPP", "IP"}

\* The external address each router reports.
DeviceExternalIP(d) ==
    CASE d = "d1" -> "203.0.113.7"
      [] d = "d2" -> "203.0.113.8"
      [] d = "d3" -> "198.51.100.9"

\* The sets of devices present on the network in one behaviour.
Networks == { {}, {"d2"}, {"d1", "d3"} }

\* The strings a caller hands to Load, besides a Location() it obtained.
RawURLs ==
    { DeviceLocation("d1"),
      <<"http", "://", "192.168.1.77", "/">>,
      <<"http", "://", "%zz">> }

\* The host's interfaces as net.Interfaces and (*net.Interface).Addrs report
\* them: ifacesErr is the error of Interfaces, addrsErrAt the index of the
\* interface whose Addrs fails (0: none).
IPNet(ip, prefix) == [Type |-> "IPNet", IP |-> ip, Prefix |-> prefix]
IPAddr(ip) == [Type |-> "IPAddr", IP |-> ip, Prefix |-> 32]

HostConfigs ==
    { [ifacesErr |-> FALSE, addrsErrAt |-> 0, ifaces |-> <<>>],
      [ifacesErr |-> FALSE, addrsErrAt |-> 0,
       ifaces |-> << <<IPNet(<<127, 0, 0, 1>>, 8)>>,
                     <<IPAddr(<<192, 168, 1, 50>>),
                       IPNet(<<192, 168, 1, 50>>, 24),
                       IPNet(<<192, 168, 1, 60>>, 24)>> >>],
      [ifacesErr |-> FALSE, addrsErrAt |-> 0,
       ifaces |-> << <<IPNet(<<10, 0, 0, 5>>, 8)>>,
                     <<IPNet(<<192, 168, 1, 60>>, 25)>> >>],
      [ifacesErr |-> FALSE, addrsErrAt |-> 2,
       ifaces |-> << <<IPNet(<<10, 0, 0, 5>>, 8)>>,
                     <<IPNet(<<192, 168, 1, 50>>, 24)>> >>],
      [ifacesErr |-> TRUE, addrsErrAt |-> 0, ifaces |-> <<>>] }

\* ------------------------------------------------------------------------
\* Values of the package
\* ------------------------------------------------------------------------

\* Errors are texts; the nil error is the empty text.
Nil == <<>>

ErrNoGateway == <<"no UPnP-enabled gateway found">>
ErrNoGatewayAt(rawurl) == <<"no UPnP-enabled gateway found at URL ">> \o rawurl
ErrRouterIP == <<"could not determine router's internal IP">>
ErrInternalIP == <<"could not determine internal IP">>
ErrInterfaces == <<"net.Interfaces failed">>
ErrAddrs == <<"Addrs failed">>

\* The fault a remote action returns when the router rejects it or the
\* transport fails.
Fault(action, proto) == <<"fault", action, proto>>

\* A control client of one service of one device, as goupnp builds it:
\* Location is the URL the description was fetched from.
Client(d, kind, loc) == [dev |-> d, kind |-> kind, Location |-> loc]

\* The nil client.
NoClient == Client(None, None, EmptyURL)

\* The URL a device's description is fetched from.
DeviceURL(d) == url_Parse(DeviceLocation(d)).url

\* RootDevice.URLBase of a client: no device here declares a URLBase of its
\* own, and goupnp then takes the description's URL.
URLBase(client) == client.Location

\* An entry of a router's port mapping table (the arguments of AddPortMapping).
Mapping(remoteHost, extPort, proto, intPort, intClient, enabled, desc, lease) ==
    [NewRemoteHost             |-> remoteHost,
     NewExternalPort           |-> extPort,
     NewProtocol               |-> proto,
     NewInternalPort           |-> intPort,
     NewInternalClient         |-> intClient,
     NewEnabled                |-> enabled,
     NewPortMappingDescription |-> desc,
     NewLeaseDuration          |-> lease]

\* ------------------------------------------------------------------------
\* getInternalIP
\* ------------------------------------------------------------------------

\* FirstMatch without the return of line 116: the last match stands.
FirstMatch_Last(addrs, devIP) ==
    LET at == { j \in 1..Len(addrs) :
                    addrs[j].Type = "IPNet" /\ Contains(addrs[j], devIP) }
    IN  IF at = {} THEN 0 ELSE CHOOSE j \in at : \A k \in at : k <= j

\* The first address of addrs that is a *net.IPNet containing devIP, 0 if none.
FirstMatch(addrs, devIP) ==
    LET at == { j \in 1..Len(addrs) :
                    addrs[j].Type = "IPNet" /\ Contains(addrs[j], devIP) }
    IN  IF at = {} THEN 0 ELSE CHOOSE j \in at : \A k \in at : j <= k

\* The loop over the interfaces, from interface i on.
RECURSIVE ScanIfaces(_, _, _)
ScanIfaces(h, devIP, i) ==
    IF i > Len(h.ifaces)
    THEN [ip |-> "", err |-> ErrInternalIP]
    ELSE IF h.addrsErrAt = i
    THEN [ip |-> "", err |-> ErrAddrs]
    ELSE LET j == FirstMatch(h.ifaces[i], devIP)
         IN  IF j # 0
             THEN [ip |-> IPString(h.ifaces[i][j].IP), err |-> Nil]
             ELSE ScanIfaces(h, devIP, i + 1)

\* getInternalIP taking the whole base host as the device address when
\* SplitHostPort fails.
getInternalIP_HostFallback(u, h) ==
    LET split == SplitHostPort(URLBase(u).Host)
        devIP == ParseIP(IF split.err # "nil" THEN URLBase(u).Host ELSE split.host)
    IN  IF Len(devIP) = 0
        THEN [ip |-> "", err |-> ErrRouterIP]
        ELSE IF h.ifacesErr
        THEN [ip |-> "", err |-> ErrInterfaces]
        ELSE ScanIfaces(h, devIP, 1)

\* getInternalIP of the handle on client u, on the host configured as h.
getInternalIP(u, h) ==
    LET split == SplitHostPort(URLBase(u).Host)
        devIP == ParseIP(split.host)
    IN  IF Len(devIP) = 0
        THEN [ip |-> "", err |-> ErrRouterIP]
        ELSE IF h.ifacesErr
        THEN [ip |-> "", err |-> ErrInterfaces]
        ELSE ScanIfaces(h, devIP, 1)

\* ------------------------------------------------------------------------
\* State
\* ------------------------------------------------------------------------

VARIABLES
    network,    \* the devices present on the local network
    reliable,   \* TRUE: every remote action on a router succeeds
    host,       \* the host's interface configuration
    table,      \* table[d]: the port mapping table of router d
    pc,         \* pc[c]: where caller c stands in its current operation
    handle,     \* handle[c]: the IGD caller c holds (NoClient: none)
    frame,      \* frame[c]: arguments, locals and results of c's current or
                \* last operation, with the calls it made and the table it found
    prev,       \* prev[c]: the frame of the operation before that
    left        \* operations that may still be started

vars == <<network, reliable, host, table, pc, handle, frame, prev, left>>

\* One collaborator call and whether it succeeded.
Call(action, arg, ok) == [action |-> action, arg |-> arg, ok |-> ok]

\* The frame of an operation op that caller c starts.
NewFrame(c, op) ==
    [op         |-> op,
     u          |-> handle[c],
     port       |-> 0,
     desc       |-> "",
     rawurl     |-> <<>>,
     loc        |-> EmptyURL,
     pppclients |-> <<>>,
     ipclients  |-> <<>>,
     ip         |-> "",
     calls      |-> <<>>,
     before     |-> IF handle[c] = NoClient THEN {} ELSE table[handle[c].dev],
     err        |-> Nil,
     igd        |-> NoClient,
     str        |-> <<>>]

NoFrame ==
    [op |-> None, u |-> NoClient, port |-> 0, desc |-> "", rawurl |-> <<>>,
     loc |-> EmptyURL, pppclients |-> <<>>, ipclients |-> <<>>, ip |-> "",
     calls |-> <<>>, before |-> {}, err |-> Nil, igd |-> NoClient, str |-> <<>>]

Setup ==
    /\ network \in Networks
    /\ reliable \in BOOLEAN
    /\ host \in HostConfigs
    /\ table = [d \in Devices |-> {}]
    /\ pc = [c \in Callers |-> "idle"]
    /\ handle = [c \in Callers |-> NoClient]
    /\ frame = [c \in Callers |-> NoFrame]
    /\ prev = [c \in Callers |-> NoFrame]

\* Concurrent callers.
Init == Setup /\ left = MaxConcOps

\* One caller.
InitSeq == Setup /\ left = MaxOps

\* ------------------------------------------------------------------------
\* The collaborators: goupnp's searches and the routers' remote actions
\* ------------------------------------------------------------------------

\* The enumerations of a finite set, in every order.
Perms(S) ==
    { p \in [1..Cardinality(S) -> S] :
        \A i, j \in 1..Cardinality(S) : p[i] = p[j] => i = j }

\* internetgateway1.NewWAN{PPP,IP}Connection1Clients: one client per device on
\* the network that offers the service, in the order the answers arrive.
Search(kind) ==
    { [i \in 1..Len(p) |-> Client(p[i], kind, DeviceURL(p[i]))] :
        p \in Perms({ d \in network : kind \in DeviceServices(d) }) }

\* internetgateway1.NewWAN{PPP,IP}Connection1ClientsByURL: the clients of the
\* device whose description is at loc, none if no device is there.
ByURL(loc, kind) ==
    LET ds == { d \in network : DeviceURL(d) = loc /\ kind \in DeviceServices(d) }
    IN  IF ds = {} THEN <<>> ELSE <<Client(CHOOSE d \in ds : TRUE, kind, loc)>>

\* Whether a remote action sent through client u succeeds: never when no such
\* service is there to answer, always on a reliable router.
Outcomes(u) ==
    IF ~ ( /\ u.dev \in network
           /\ u.kind \in DeviceServices(u.dev)
           /\ u.Location = DeviceURL(u.dev) )
    THEN {FALSE}
    ELSE IF reliable THEN {TRUE} ELSE {TRUE, FALSE}

\* The router's table after a successful AddPortMapping of m: m replaces the
\* entry for its remote host, external port and protocol.
AddPortMapping(tbl, m) ==
    { e \in tbl : ~ ( /\ e.NewRemoteHost = m.NewRemoteHost
                      /\ e.NewExternalPort = m.NewExternalPort
                      /\ e.NewProtocol = m.NewProtocol ) } \cup {m}

\* The router's table after a successful DeletePortMapping.
DeletePortMapping(tbl, remoteHost, port, proto) ==
    { e \in tbl : ~ ( /\ e.NewRemoteHost = remoteHost
                      /\ e.NewExternalPort = port
                      /\ e.NewProtocol = proto ) }

\* ------------------------------------------------------------------------
\* Operations.  A caller starts an operation when it is idle; the operation
\* takes one step per collaborator call and returns by going back to idle
\* with its results in the frame.
\* ------------------------------------------------------------------------

CanStart(c) == pc[c] = "idle" /\ left > 0

\* The bookkeeping of starting an operation.
Started(c) ==
    /\ prev' = [prev EXCEPT ![c] = frame[c]]
    /\ left' = left - 1

\* DiscoverPPP with the two searches of Discover in the other order.
DiscoverPPP_IPFirst(c) ==
    /\ CanStart(c)
    /\ \E ipclients \in Search("IP") :
        LET f == [NewFrame(c, "Discover") EXCEPT
                    !.ipclients = ipclients,
                    !.calls = <<Call("Search", "IP", Len(ipclients) > 0)>>]
        IN  IF Len(ipclients) > 0
            THEN /\ frame' = [frame EXCEPT ![c] = [f EXCEPT !.igd = ipclients[1]]]
                 /\ handle' = [handle EXCEPT ![c] = ipclients[1]]
                 /\ pc' = [pc EXCEPT ![c] = "idle"]
            ELSE /\ frame' = [frame EXCEPT ![c] = f]
                 /\ pc' = [pc EXCEPT ![c] = "Discover_ip"]
                 /\ UNCHANGED handle
    /\ Started(c)
    /\ UNCHANGED <<network, reliable, host, table>>

\* Discover, lines 131-134: the search for PPP connection services.
DiscoverPPP(c) ==
    /\ CanStart(c)
    /\ \E pppclients \in Search("PPP") :
        LET f == [NewFrame(c, "Discover") EXCEPT
                    !.pppclients = pppclients,
                    !.calls = <<Call("Search", "PPP", Len(pppclients) > 0)>>]
        IN  IF Len(pppclients) > 0
            THEN /\ frame' = [frame EXCEPT ![c] = [f EXCEPT !.igd = pppclients[1]]]
                 /\ handle' = [handle EXCEPT ![c] = pppclients[1]]
                 /\ pc' = [pc EXCEPT ![c] = "idle"]
            ELSE /\ frame' = [frame EXCEPT ![c] = f]
                 /\ pc' = [pc EXCEPT ![c] = "Discover_ip"]
                 /\ UNCHANGED handle
    /\ Started(c)
    /\ UNCHANGED <<network, reliable, host, table>>

\* DiscoverIP keeping the gateway it found in a variable of the package, which
\* every caller's handle is.
DiscoverIP_Shared(c) ==
    /\ pc[c] = "Discover_ip"
    /\ \E ipclients \in Search("IP") :
        LET f == [frame[c] EXCEPT
                    !.ipclients = ipclients,
                    !.calls = Append(@, Call("Search", "IP", Len(ipclients) > 0))]
        IN  IF Len(ipclients) > 0
            THEN /\ frame' = [frame EXCEPT ![c] = [f EXCEPT !.igd = ipclients[1]]]
                 /\ handle' = [o \in Callers |-> ipclients[1]]
            ELSE /\ frame' = [frame EXCEPT ![c] = [f EXCEPT !.err = ErrNoGateway]]
                 /\ UNCHANGED handle
    /\ pc' = [pc EXCEPT ![c] = "idle"]
    /\ UNCHANGED <<network, reliable, host, table, prev, left>>

\* DiscoverIP returning (nil, nil) where line 139 returns the error.
DiscoverIP_NilNil(c) ==
    /\ pc[c] = "Discover_ip"
    /\ \E ipclients \in Search("IP") :
        LET f == [frame[c] EXCEPT
                    !.ipclients = ipclients,
                    !.calls = Append(@, Call("Search", "IP", Len(ipclients) > 0))]
        IN  IF Len(ipclients) > 0
            THEN /\ frame' = [frame EXCEPT ![c] = [f EXCEPT !.igd = ipclients[1]]]
                 /\ handle' = [handle EXCEPT ![c] = ipclients[1]]
            ELSE /\ frame' = [frame EXCEPT ![c] = f]
                 /\ UNCHANGED handle
    /\ pc' = [pc EXCEPT ![c] = "idle"]
    /\ UNCHANGED <<network, reliable, host, table, prev, left>>

\* Discover, lines 135-139: the search for IP connection services.
DiscoverIP(c) ==
    /\ pc[c] = "Discover_ip"
    /\ \E ipclients \in Search("IP") :
        LET f == [frame[c] EXCEPT
                    !.ipclients = ipclients,
                    !.calls = Append(@, Call("Search", "IP", Len(ipclients) > 0))]
        IN  IF Len(ipclients) > 0
            THEN /\ frame' = [frame EXCEPT ![c] = [f EXCEPT !.igd = ipclients[1]]]
                 /\ handle' = [handle EXCEPT ![c] = ipclients[1]]
            ELSE /\ frame' = [frame EXCEPT ![c] = [f EXCEPT !.err = ErrNoGateway]]
                 /\ UNCHANGED handle
    /\ pc' = [pc EXCEPT ![c] = "idle"]
    /\ UNCHANGED <<network, reliable, host, table, prev, left>>

\* Location giving the device's base address, without the path.
Location_BaseOnly(u) == URL_String([u.Location EXCEPT !.Path = <<>>])

\* Location, lines 89-91.
Location(u) == URL_String(u.Location)

\* The strings caller c may hand to Load.
LoadInputs(c) ==
    RawURLs \cup (IF handle[c] = NoClient THEN {} ELSE {Location(handle[c])})

\* LoadPPP asking for the IP clients first.
LoadPPP_IPFirst(c) ==
    /\ CanStart(c)
    /\ \E rawurl \in LoadInputs(c) :
        LET parsed == url_Parse(rawurl)
            f0 == [NewFrame(c, "Load") EXCEPT !.rawurl = rawurl]
            ipclients == ByURL(parsed.url, "IP")
            f == [f0 EXCEPT
                    !.loc = parsed.url,
                    !.ipclients = ipclients,
                    !.calls = <<Call("ByURL", "IP", Len(ipclients) > 0)>>]
        IN  IF parsed.err # "nil"
            THEN /\ frame' = [frame EXCEPT ![c] = [f0 EXCEPT !.err = <<parsed.err>>]]
                 /\ pc' = [pc EXCEPT ![c] = "idle"]
                 /\ UNCHANGED handle
            ELSE IF Len(ipclients) > 0
            THEN /\ frame' = [frame EXCEPT ![c] = [f EXCEPT !.igd = ipclients[1]]]
                 /\ handle' = [handle EXCEPT ![c] = ipclients[1]]
                 /\ pc' = [pc EXCEPT ![c] = "idle"]
            ELSE /\ frame' = [frame EXCEPT ![c] = f]
                 /\ pc' = [pc EXCEPT ![c] = "Load_ip"]
                 /\ UNCHANGED handle
    /\ Started(c)
    /\ UNCHANGED <<network, reliable, host, table>>

\* LoadPPP without the return on error of lines 147-149.
LoadPPP_NoReturn(c) ==
    /\ CanStart(c)
    /\ \E rawurl \in LoadInputs(c) :
        LET parsed == url_Parse(rawurl)
            pppclients == ByURL(parsed.url, "PPP")
            f == [NewFrame(c, "Load") EXCEPT
                    !.rawurl = rawurl,
                    !.loc = parsed.url,
                    !.pppclients = pppclients,
                    !.calls = <<Call("ByURL", "PPP", Len(pppclients) > 0)>>]
        IN  IF Len(pppclients) > 0
            THEN /\ frame' = [frame EXCEPT ![c] = [f EXCEPT !.igd = pppclients[1]]]
                 /\ handle' = [handle EXCEPT ![c] = pppclients[1]]
                 /\ pc' = [pc EXCEPT ![c] = "idle"]
            ELSE /\ frame' = [frame EXCEPT ![c] = f]
                 /\ pc' = [pc EXCEPT ![c] = "Load_ip"]
                 /\ UNCHANGED handle
    /\ Started(c)
    /\ UNCHANGED <<network, reliable, host, table>>

\* Load, lines 146-153: the parse and the PPP clients at the URL.
LoadPPP(c) ==
    /\ CanStart(c)
    /\ \E rawurl \in LoadInputs(c) :
        LET parsed == url_Parse(rawurl)
            f0 == [NewFrame(c, "Load") EXCEPT !.rawurl = rawurl]
            pppclients == ByURL(parsed.url, "PPP")
            f == [f0 EXCEPT
                    !.loc = parsed.url,
                    !.pppclients = pppclients,
                    !.calls = <<Call("ByURL", "PPP", Len(pppclients) > 0)>>]
        IN  IF parsed.err # "nil"
            THEN /\ frame' = [frame EXCEPT ![c] = [f0 EXCEPT !.err = <<parsed.err>>]]
                 /\ pc' = [pc EXCEPT ![c] = "idle"]
                 /\ UNCHANGED handle
            ELSE IF Len(pppclients) > 0
            THEN /\ frame' = [frame EXCEPT ![c] = [f EXCEPT !.igd = pppclients[1]]]
                 /\ handle' = [handle EXCEPT ![c] = pppclients[1]]
                 /\ pc' = [pc EXCEPT ![c] = "idle"]
            ELSE /\ frame' = [frame EXCEPT ![c] = f]
                 /\ pc' = [pc EXCEPT ![c] = "Load_ip"]
                 /\ UNCHANGED handle
    /\ Started(c)
    /\ UNCHANGED <<network, reliable, host, table>>

\* Load, lines 154-158: the IP clients at the URL.
LoadIP(c) ==
    /\ pc[c] = "Load_ip"
    /\ LET ipclients == ByURL(frame[c].loc, "IP")
           f == [frame[c] EXCEPT
                    !.ipclients = ipclients,
                    !.calls = Append(@, Call("ByURL", "IP", Len(ipclients) > 0))]
       IN  IF Len(ipclients) > 0
           THEN /\ frame' = [frame EXCEPT ![c] = [f EXCEPT !.igd = ipclients[1]]]
                /\ handle' = [handle EXCEPT ![c] = ipclients[1]]
           ELSE /\ frame' = [frame EXCEPT
                                ![c] = [f EXCEPT !.err = ErrNoGatewayAt(f.rawurl)]]
                /\ UNCHANGED handle
    /\ pc' = [pc EXCEPT ![c] = "idle"]
    /\ UNCHANGED <<network, reliable, host, table, prev, left>>

\* ExternalIP returning a nil error whatever GetExternalIPAddress returned.
ExternalIP_Swallow(c) ==
    /\ CanStart(c)
    /\ handle[c] # NoClient
    /\ \E ok \in Outcomes(handle[c]) :
        frame' = [frame EXCEPT ![c] =
            [NewFrame(c, "ExternalIP") EXCEPT
                !.calls = <<Call("GetExternalIPAddress", "", ok)>>,
                !.ip = IF ok THEN DeviceExternalIP(handle[c].dev) ELSE ""]]
    /\ Started(c)
    /\ UNCHANGED <<network, reliable, host, table, pc, handle>>

\* ExternalIP, lines 58-60.
ExternalIP(c) ==
    /\ CanStart(c)
    /\ handle[c] # NoClient
    /\ \E ok \in Outcomes(handle[c]) :
        frame' = [frame EXCEPT ![c] =
            [NewFrame(c, "ExternalIP") EXCEPT
                !.calls = <<Call("GetExternalIPAddress", "", ok)>>,
                !.ip = IF ok THEN DeviceExternalIP(handle[c].dev) ELSE "",
                !.err = IF ok THEN Nil ELSE Fault("GetExternalIPAddress", "")]]
    /\ Started(c)
    /\ UNCHANGED <<network, reliable, host, table, pc, handle>>

\* The caller's call of Location.
LocationOp(c) ==
    /\ CanStart(c)
    /\ handle[c] # NoClient
    /\ frame' = [frame EXCEPT ![c] =
            [NewFrame(c, "Location") EXCEPT !.str = Location(handle[c])]]
    /\ Started(c)
    /\ UNCHANGED <<network, reliable, host, table, pc, handle>>

\* ForwardResolve keeping the internal IP of the caller's last Forward on the
\* handle instead of calling getInternalIP again.
ForwardResolve_Cached(c) ==
    /\ CanStart(c)
    /\ handle[c] # NoClient
    /\ \E port \in Ports, desc \in Descs :
        LET cached == /\ frame[c].op = "Forward" /\ frame[c].u = handle[c]
                      /\ frame[c].ip # ""
            r == IF cached THEN [ip |-> frame[c].ip, err |-> Nil]
                 ELSE getInternalIP(handle[c], host)
            f == [NewFrame(c, "Forward") EXCEPT !.port = port, !.desc = desc]
        IN  IF r.err # Nil
            THEN /\ frame' = [frame EXCEPT ![c] = [f EXCEPT !.err = r.err]]
                 /\ UNCHANGED pc
            ELSE /\ frame' = [frame EXCEPT ![c] = [f EXCEPT !.ip = r.ip]]
                 /\ pc' = [pc EXCEPT ![c] = "Forward_tcp"]
    /\ Started(c)
    /\ UNCHANGED <<network, reliable, host, table, handle>>

\* ForwardResolve without the return on error of lines 68-70.
ForwardResolve_IgnoreErr(c) ==
    /\ CanStart(c)
    /\ handle[c] # NoClient
    /\ \E port \in Ports, desc \in Descs :
        LET r == getInternalIP(handle[c], host)
            f == [NewFrame(c, "Forward") EXCEPT !.port = port, !.desc = desc]
        IN  /\ frame' = [frame EXCEPT ![c] = [f EXCEPT !.ip = r.ip]]
            /\ pc' = [pc EXCEPT ![c] = "Forward_tcp"]
    /\ Started(c)
    /\ UNCHANGED <<network, reliable, host, table, handle>>

\* ForwardResolve returning nil at once when the port already has a TCP entry.
ForwardResolve_Shortcut(c) ==
    /\ CanStart(c)
    /\ handle[c] # NoClient
    /\ \E port \in Ports, desc \in Descs :
        LET r == getInternalIP(handle[c], host)
            f == [NewFrame(c, "Forward") EXCEPT !.port = port, !.desc = desc]
        IN  IF r.err # Nil
            THEN /\ frame' = [frame EXCEPT ![c] = [f EXCEPT !.err = r.err]]
                 /\ UNCHANGED pc
            ELSE /\ frame' = [frame EXCEPT ![c] = [f EXCEPT !.ip = r.ip]]
                 /\ IF \E e \in table[handle[c].dev] :
                          e.NewExternalPort = port /\ e.NewProtocol = "TCP"
                    THEN UNCHANGED pc
                    ELSE pc' = [pc EXCEPT ![c] = "Forward_tcp"]
    /\ Started(c)
    /\ UNCHANGED <<network, reliable, host, table, handle>>

\* Forward, lines 67-70: the internal IP.
ForwardResolve(c) ==
    /\ CanStart(c)
    /\ handle[c] # NoClient
    /\ \E port \in Ports, desc \in Descs :
        LET r == getInternalIP(handle[c], host)
            f == [NewFrame(c, "Forward") EXCEPT !.port = port, !.desc = desc]
        IN  IF r.err # Nil
            THEN /\ frame' = [frame EXCEPT ![c] = [f EXCEPT !.err = r.err]]
                 /\ UNCHANGED pc
            ELSE /\ frame' = [frame EXCEPT ![c] = [f EXCEPT !.ip = r.ip]]
                 /\ pc' = [pc EXCEPT ![c] = "Forward_tcp"]
    /\ Started(c)
    /\ UNCHANGED <<network, reliable, host, table, handle>>

\* ForwardTCP without the return on error of lines 73-75.
ForwardTCP_NoReturn(c) ==
    /\ pc[c] = "Forward_tcp"
    /\ LET f == frame[c]
           d == f.u.dev
       IN  \E ok \in Outcomes(f.u) :
            /\ frame' = [frame EXCEPT ![c] =
                    [f EXCEPT !.calls = Append(@, Call("AddPortMapping", "TCP", ok))]]
            /\ IF ok
               THEN table' = [table EXCEPT ![d] = AddPortMapping(@,
                        Mapping("", f.port, "TCP", f.port, f.ip, TRUE, f.desc, 0))]
               ELSE UNCHANGED table
    /\ pc' = [pc EXCEPT ![c] = "Forward_udp"]
    /\ UNCHANGED <<network, reliable, host, handle, prev, left>>

\* ForwardTCP trying AddPortMapping a second time when the first call fails.
ForwardTCP_Retry(c) ==
    /\ pc[c] = "Forward_tcp"
    /\ LET f == frame[c]
           d == f.u.dev
       IN  \E first \in Outcomes(f.u), second \in Outcomes(f.u) :
            LET ok == first \/ second
                made == IF first THEN <<Call("AddPortMapping", "TCP", TRUE)>>
                        ELSE <<Call("AddPortMapping", "TCP", FALSE),
                               Call("AddPortMapping", "TCP", second)>>
            IN  /\ frame' = [frame EXCEPT ![c] =
                        [f EXCEPT
                            !.calls = @ \o made,
                            !.err = IF ok THEN Nil ELSE Fault("AddPortMapping", "TCP")]]
                /\ IF ok
                   THEN /\ table' = [table EXCEPT ![d] = AddPortMapping(@,
                                Mapping("", f.port, "TCP", f.port, f.ip, TRUE, f.desc, 0))]
                        /\ pc' = [pc EXCEPT ![c] = "Forward_udp"]
                   ELSE /\ pc' = [pc EXCEPT ![c] = "idle"]
                        /\ UNCHANGED table
    /\ UNCHANGED <<network, reliable, host, handle, prev, left>>

\* Forward, lines 72-75: AddPortMapping for TCP.
ForwardTCP(c) ==
    /\ pc[c] = "Forward_tcp"
    /\ LET f == frame[c]
           d == f.u.dev
       IN  \E ok \in Outcomes(f.u) :
            /\ frame' = [frame EXCEPT ![c] =
                    [f EXCEPT
                        !.calls = Append(@, Call("AddPortMapping", "TCP", ok)),
                        !.err = IF ok THEN Nil ELSE Fault("AddPortMapping", "TCP")]]
            /\ IF ok
               THEN /\ table' = [table EXCEPT ![d] = AddPortMapping(@,
                            Mapping("", f.port, "TCP", f.port, f.ip, TRUE, f.desc, 0))]
                    /\ pc' = [pc EXCEPT ![c] = "Forward_udp"]
               ELSE /\ pc' = [pc EXCEPT ![c] = "idle"]
                    /\ UNCHANGED table
    /\ UNCHANGED <<network, reliable, host, handle, prev, left>>

\* ForwardUDP with "TCP" for "UDP" in line 76.
ForwardUDP_TCPAgain(c) ==
    /\ pc[c] = "Forward_udp"
    /\ LET f == frame[c]
           d == f.u.dev
       IN  \E ok \in Outcomes(f.u) :
            /\ frame' = [frame EXCEPT ![c] =
                    [f EXCEPT
                        !.calls = Append(@, Call("AddPortMapping", "TCP", ok)),
                        !.err = IF ok THEN Nil ELSE Fault("AddPortMapping", "TCP")]]
            /\ IF ok
               THEN table' = [table EXCEPT ![d] = AddPortMapping(@,
                        Mapping("", f.port, "TCP", f.port, f.ip, TRUE, f.desc, 0))]
               ELSE UNCHANGED table
    /\ pc' = [pc EXCEPT ![c] = "idle"]
    /\ UNCHANGED <<network, reliable, host, handle, prev, left>>

\* ForwardUDP reading the port from a field of the shared handle, which the
\* Forward another caller has in progress has overwritten.
ForwardUDP_SharedPort(c) ==
    /\ pc[c] = "Forward_udp"
    /\ LET f == frame[c]
           d == f.u.dev
           others == { o \in Callers \ {c} :
                        pc[o] \in {"Forward_tcp", "Forward_udp"} /\ frame[o].u = f.u }
           port == IF others = {} THEN f.port
                   ELSE frame[CHOOSE o \in others : TRUE].port
       IN  \E ok \in Outcomes(f.u) :
            /\ frame' = [frame EXCEPT ![c] =
                    [f EXCEPT
                        !.calls = Append(@, Call("AddPortMapping", "UDP", ok)),
                        !.err = IF ok THEN Nil ELSE Fault("AddPortMapping", "UDP")]]
            /\ IF ok
               THEN table' = [table EXCEPT ![d] = AddPortMapping(@,
                        Mapping("", port, "UDP", port, f.ip, TRUE, f.desc, 0))]
               ELSE UNCHANGED table
    /\ pc' = [pc EXCEPT ![c] = "idle"]
    /\ UNCHANGED <<network, reliable, host, handle, prev, left>>

\* ForwardUDP undoing the TCP mapping when the UDP call fails.
ForwardUDP_Rollback(c) ==
    /\ pc[c] = "Forward_udp"
    /\ LET f == frame[c]
           d == f.u.dev
       IN  \E ok \in Outcomes(f.u) :
            /\ frame' = [frame EXCEPT ![c] =
                    [f EXCEPT
                        !.calls = Append(@, Call("AddPortMapping", "UDP", ok)),
                        !.err = IF ok THEN Nil ELSE Fault("AddPortMapping", "UDP")]]
            /\ IF ok
               THEN table' = [table EXCEPT ![d] = AddPortMapping(@,
                        Mapping("", f.port, "UDP", f.port, f.ip, TRUE, f.desc, 0))]
               ELSE table' = [table EXCEPT ![d] =
                        DeletePortMapping(@, "", f.port, "TCP")]
    /\ pc' = [pc EXCEPT ![c] = "idle"]
    /\ UNCHANGED <<network, reliable, host, handle, prev, left>>

\* Forward, line 76: AddPortMapping for UDP.
ForwardUDP(c) ==
    /\ pc[c] = "Forward_udp"
    /\ LET f == frame[c]
           d == f.u.dev
       IN  \E ok \in Outcomes(f.u) :
            /\ frame' = [frame EXCEPT ![c] =
                    [f EXCEPT
                        !.calls = Append(@, Call("AddPortMapping", "UDP", ok)),
                        !.err = IF ok THEN Nil ELSE Fault("AddPortMapping", "UDP")]]
            /\ IF ok
               THEN table' = [table EXCEPT ![d] = AddPortMapping(@,
                        Mapping("", f.port, "UDP", f.port, f.ip, TRUE, f.desc, 0))]
               ELSE UNCHANGED table
    /\ pc' = [pc EXCEPT ![c] = "idle"]
    /\ UNCHANGED <<network, reliable, host, handle, prev, left>>

\* ClearTCP without the return on error of lines 82-84.
ClearTCP_NoReturn(c) ==
    /\ CanStart(c)
    /\ handle[c] # NoClient
    /\ \E port \in Ports, ok \in Outcomes(handle[c]) :
        /\ frame' = [frame EXCEPT ![c] =
                [NewFrame(c, "Clear") EXCEPT
                    !.port = port,
                    !.calls = <<Call("DeletePortMapping", "TCP", ok)>>]]
        /\ IF ok
           THEN table' = [table EXCEPT ![handle[c].dev] =
                    DeletePortMapping(@, "", port, "TCP")]
           ELSE UNCHANGED table
    /\ pc' = [pc EXCEPT ![c] = "Clear_udp"]
    /\ Started(c)
    /\ UNCHANGED <<network, reliable, host, handle>>

\* ClearTCP resolving the internal IP first, as Forward does.
ClearTCP_Resolves(c) ==
    /\ CanStart(c)
    /\ handle[c] # NoClient
    /\ \E port \in Ports, ok \in Outcomes(handle[c]) :
        LET r == getInternalIP(handle[c], host)
            f == [NewFrame(c, "Clear") EXCEPT !.port = port]
        IN  IF r.err # Nil
            THEN /\ frame' = [frame EXCEPT ![c] = [f EXCEPT !.err = r.err]]
                 /\ UNCHANGED <<table, pc>>
            ELSE /\ frame' = [frame EXCEPT ![c] =
                        [f EXCEPT
                            !.calls = <<Call("DeletePortMapping", "TCP", ok)>>,
                            !.err = IF ok THEN Nil
                                    ELSE Fault("DeletePortMapping", "TCP")]]
                 /\ IF ok
                    THEN /\ table' = [table EXCEPT ![handle[c].dev] =
                                 DeletePortMapping(@, "", port, "TCP")]
                         /\ pc' = [pc EXCEPT ![c] = "Clear_udp"]
                    ELSE UNCHANGED <<table, pc>>
    /\ Started(c)
    /\ UNCHANGED <<network, reliable, host, handle>>

\* Clear, lines 81-84: DeletePortMapping for TCP.
ClearTCP(c) ==
    /\ CanStart(c)
    /\ handle[c] # NoClient
    /\ \E port \in Ports, ok \in Outcomes(handle[c]) :
        /\ frame' = [frame EXCEPT ![c] =
                [NewFrame(c, "Clear") EXCEPT
                    !.port = port,
                    !.calls = <<Call("DeletePortMapping", "TCP", ok)>>,
                    !.err = IF ok THEN Nil ELSE Fault("DeletePortMapping", "TCP")]]
        /\ IF ok
           THEN /\ table' = [table EXCEPT ![handle[c].dev] =
                        DeletePortMapping(@, "", port, "TCP")]
                /\ pc' = [pc EXCEPT ![c] = "Clear_udp"]
           ELSE UNCHANGED <<table, pc>>
    /\ Started(c)
    /\ UNCHANGED <<network, reliable, host, handle>>

\* ClearUDP with "TCP" for "UDP" in line 85.
ClearUDP_TCPAgain(c) ==
    /\ pc[c] = "Clear_udp"
    /\ LET f == frame[c]
           d == f.u.dev
       IN  \E ok \in Outcomes(f.u) :
            /\ frame' = [frame EXCEPT ![c] =
                    [f EXCEPT
                        !.calls = Append(@, Call("DeletePortMapping", "TCP", ok)),
                        !.err = IF ok THEN Nil ELSE Fault("DeletePortMapping", "TCP")]]
            /\ IF ok
               THEN table' = [table EXCEPT ![d] = DeletePortMapping(@, "", f.port, "TCP")]
               ELSE UNCHANGED table
    /\ pc' = [pc EXCEPT ![c] = "idle"]
    /\ UNCHANGED <<network, reliable, host, handle, prev, left>>

\* Clear, line 85: DeletePortMapping for UDP.
ClearUDP(c) ==
    /\ pc[c] = "Clear_udp"
    /\ LET f == frame[c]
           d == f.u.dev
       IN  \E ok \in Outcomes(f.u) :
            /\ frame' = [frame EXCEPT ![c] =
                    [f EXCEPT
                        !.calls = Append(@, Call("DeletePortMapping", "UDP", ok)),
                        !.err = IF ok THEN Nil ELSE Fault("DeletePortMapping", "UDP")]]
            /\ IF ok
               THEN table' = [table EXCEPT ![d] = DeletePortMapping(@, "", f.port, "UDP")]
               ELSE UNCHANGED table
    /\ pc' = [pc EXCEPT ![c] = "idle"]
    /\ UNCHANGED <<network, reliable, host, handle, prev, left>>

\* ------------------------------------------------------------------------
\* Specifications
\* ------------------------------------------------------------------------

Step(c) ==
    \/ DiscoverPPP(c)
    \/ DiscoverIP(c)
    \/ LoadPPP(c)
    \/ LoadIP(c)
    \/ ExternalIP(c)
    \/ LocationOp(c)
    \/ ForwardResolve(c)
    \/ ForwardTCP(c)
    \/ ForwardUDP(c)
    \/ ClearTCP(c)
    \/ ClearUDP(c)

\* Callers running concurrently.
Next == \E c \in Callers : Step(c)

Spec == Init /\ [][Next]_vars

\* One caller, its operations one after the other.
NextSeq == Step("c1")

SpecSeq == InitSeq /\ [][NextSeq]_vars

\* ------------------------------------------------------------------------
\* Properties
\* ------------------------------------------------------------------------

\* Caller c has returned from an operation op.
Done(c, op) == pc[c] = "idle" /\ frame[c].op = op

\* The entries of a table for one external port and protocol.
Entries(tbl, port, proto) ==
    { e \in tbl : e.NewExternalPort = port /\ e.NewProtocol = proto }

\* The entries of a table for one external port.
PortEntries(tbl, port) == { e \in tbl : e.NewExternalPort = port }

\* The entry Forward(port, desc) asks for, for one protocol and internal IP.
Wanted(port, proto, ip, desc) == Mapping("", port, proto, port, ip, TRUE, desc, 0)

\* The calls of a frame, as <<action, argument, ok>>.
Made(f) == [i \in 1..Len(f.calls) |-> <<f.calls[i].action, f.calls[i].arg, f.calls[i].ok>>]

\* C1 (as amended): Forward returns nil only if AddPortMapping succeeded for
\* TCP and then for UDP.  If the TCP call fails, no UDP call is made, the TCP
\* error is returned and the table is as before.  If the TCP call succeeds
\* and the UDP call fails, the UDP error is returned, the TCP entry stays (no
\* rollback) and the UDP entries of the port are as they were before the call.
C1_ForwardStopsAtFirstFailure ==
    \A c \in Callers :
        Done(c, "Forward") =>
            LET f == frame[c]
                now == table[f.u.dev]
            IN  /\ f.err = Nil =>
                      Made(f) = << <<"AddPortMapping", "TCP", TRUE>>,
                                   <<"AddPortMapping", "UDP", TRUE>> >>
                /\ (Len(f.calls) >= 1 /\ ~ f.calls[1].ok) =>
                      /\ Made(f) = << <<"AddPortMapping", "TCP", FALSE>> >>
                      /\ f.err = Fault("AddPortMapping", "TCP")
                      /\ now = f.before
                /\ (Len(f.calls) >= 2 /\ ~ f.calls[2].ok) =>
                      /\ Made(f) = << <<"AddPortMapping", "TCP", TRUE>>,
                                      <<"AddPortMapping", "UDP", FALSE>> >>
                      /\ f.err = Fault("AddPortMapping", "UDP")
                      /\ Entries(now, f.port, "TCP") = {Wanted(f.port, "TCP", f.ip, f.desc)}
                      /\ Entries(now, f.port, "UDP") = Entries(f.before, f.port, "UDP")

\* C1 as stated: after a Forward whose UDP call failed, the router holds only
\* the TCP mapping for the port.
C1_OnlyTCPAfterUDPFailure ==
    \A c \in Callers :
        (Done(c, "Forward") /\ Len(frame[c].calls) = 2 /\ ~ frame[c].calls[2].ok) =>
            PortEntries(table[frame[c].u.dev], frame[c].port) =
                {Wanted(frame[c].port, "TCP", frame[c].ip, frame[c].desc)}

\* A Forward has returned the error of its UDP call.
C1_Witness ==
    \E c \in Callers :
        /\ Done(c, "Forward")
        /\ Len(frame[c].calls) = 2
        /\ ~ frame[c].calls[2].ok
        /\ frame[c].err = Fault("AddPortMapping", "UDP")

\* C2: after a Forward(port, desc) that returned nil the router holds exactly
\* two entries for the port, one for TCP and one for UDP, each with internal
\* port = external port = port, the internal IP getInternalIP gives for the
\* handle, enabled, lease duration 0 and description desc.
C2_ForwardRegistersPair ==
    \A c \in Callers :
        (Done(c, "Forward") /\ frame[c].err = Nil) =>
            LET f == frame[c]
                ip == getInternalIP(f.u, host).ip
            IN  /\ PortEntries(table[f.u.dev], f.port) =
                      { Mapping("", f.port, "TCP", f.port, ip, TRUE, f.desc, 0),
                        Mapping("", f.port, "UDP", f.port, ip, TRUE, f.desc, 0) }
                /\ Cardinality(PortEntries(table[f.u.dev], f.port)) = 2
                /\ ip # ""

\* Forward(9001, "upnp test") has returned nil on the router at 192.168.1.1 and
\* registered 192.168.1.50 for both protocols.
C2_Witness ==
    \E c \in Callers :
        /\ Done(c, "Forward")
        /\ frame[c].err = Nil
        /\ frame[c].port = 9001
        /\ frame[c].desc = "upnp test"
        /\ URLBase(frame[c].u).Host = <<"192.168.1.1", ":", "5000">>
        /\ \A proto \in {"TCP", "UDP"} :
              \E e \in Entries(table[frame[c].u.dev], 9001, proto) :
                  e.NewInternalClient = "192.168.1.50"

\* C3: Clear calls DeletePortMapping for TCP first, and for UDP only if the
\* TCP call succeeded; it returns the error of the first call that fails.  A
\* failed TCP delete leaves the table as it was (the UDP entry untouched); a
\* failed UDP delete leaves the TCP entry of the port removed and the UDP
\* entries as they were.
C3_ClearStopsAtFirstFailure ==
    \A c \in Callers :
        Done(c, "Clear") =>
            LET f == frame[c]
                now == table[f.u.dev]
            IN  /\ Len(f.calls) >= 1
                /\ f.calls[1].action = "DeletePortMapping" /\ f.calls[1].arg = "TCP"
                /\ f.err = Nil =>
                      Made(f) = << <<"DeletePortMapping", "TCP", TRUE>>,
                                   <<"DeletePortMapping", "UDP", TRUE>> >>
                /\ ~ f.calls[1].ok =>
                      /\ Len(f.calls) = 1
                      /\ f.err = Fault("DeletePortMapping", "TCP")
                      /\ now = f.before
                /\ f.calls[1].ok =>
                      /\ Len(f.calls) = 2
                      /\ f.calls[2].action = "DeletePortMapping" /\ f.calls[2].arg = "UDP"
                /\ (Len(f.calls) = 2 /\ ~ f.calls[2].ok) =>
                      /\ f.err = Fault("DeletePortMapping", "UDP")
                      /\ Entries(now, f.port, "TCP") = {}
                      /\ Entries(now, f.port, "UDP") = Entries(f.before, f.port, "UDP")

\* A Clear of a forwarded port has failed at its TCP delete and left the UDP
\* entry in the table.
C3_Witness ==
    \E c \in Callers :
        /\ Done(c, "Clear")
        /\ ~ frame[c].calls[1].ok
        /\ Entries(table[frame[c].u.dev], frame[c].port, "UDP") # {}

\* C4: Forward(p, desc) and then Clear(p) on the same handle, every remote
\* action succeeding, leave no TCP and no UDP entry for p and leave the
\* entries of every other port as they were before the Forward.
C4_ForwardThenClear ==
    \A c \in Callers :
        ( /\ Done(c, "Clear") /\ frame[c].err = Nil
          /\ prev[c].op = "Forward" /\ prev[c].err = Nil
          /\ prev[c].port = frame[c].port
          /\ prev[c].u = frame[c].u ) =>
            LET now == table[frame[c].u.dev]
                p == frame[c].port
            IN  /\ Entries(now, p, "TCP") = {}
                /\ Entries(now, p, "UDP") = {}
                /\ \A q \in Ports \ {p} :
                      PortEntries(now, q) = PortEntries(prev[c].before, q)

\* Forward(p) and Clear(p) have both returned nil while another port was
\* forwarded.
C4_Witness ==
    \E c \in Callers :
        /\ Done(c, "Clear") /\ frame[c].err = Nil
        /\ prev[c].op = "Forward" /\ prev[c].err = Nil
        /\ prev[c].port = frame[c].port
        /\ prev[c].u = frame[c].u
        /\ \E q \in Ports \ {frame[c].port} : PortEntries(prev[c].before, q) # {}

\* The devices on the network that offer a service of one kind.
Offering(kind) == { d \in network : kind \in DeviceServices(d) }

\* C5 (as amended): Discover searches for PPP connection services first and
\* for IP connection services only when the first search found none; it
\* returns the first entry of the first non-empty result, so when a PPP and
\* an IP service both respond the handle is bound to the PPP one.
C5_DiscoverSearchesPPPFirst ==
    \A c \in Callers :
        Done(c, "Discover") =>
            LET f == frame[c]
            IN  /\ Len(f.calls) >= 1
                /\ f.calls[1].action = "Search" /\ f.calls[1].arg = "PPP"
                /\ Len(f.pppclients) > 0 =>
                      Len(f.calls) = 1 /\ f.igd = f.pppclients[1]
                /\ Len(f.pppclients) = 0 =>
                      /\ Len(f.calls) = 2
                      /\ f.calls[2].action = "Search" /\ f.calls[2].arg = "IP"
                      /\ Len(f.ipclients) > 0 => f.igd = f.ipclients[1]
                /\ (Offering("PPP") # {} /\ Offering("IP") # {}) => f.igd.kind = "PPP"

\* C5 as stated: Discover searches for IP connection services first, and when a
\* PPP and an IP service both respond the handle is bound to the IP one.
C5_DiscoverSearchesIPFirst ==
    \A c \in Callers :
        (Done(c, "Discover") /\ Offering("PPP") # {} /\ Offering("IP") # {}) =>
            /\ frame[c].calls[1].arg = "IP"
            /\ frame[c].igd.kind = "IP"

\* Discover has returned while a PPP and an IP service were both on the network.
C5_Witness ==
    \E c \in Callers :
        /\ Done(c, "Discover")
        /\ Offering("PPP") # {} /\ Offering("IP") # {}
        /\ frame[c].igd # NoClient

\* C6: in Discover and in Load a non-empty list of PPP clients is preferred
\* over a non-empty list of IP clients, and the handle is the first element
\* of the list chosen.
C6_SelectorPrefersPPP ==
    \A c \in Callers :
        LET f == frame[c]
            ppp == IF f.op = "Discover" THEN Offering("PPP")
                   ELSE { d \in Offering("PPP") : DeviceURL(d) = f.loc }
            ip  == IF f.op = "Discover" THEN Offering("IP")
                   ELSE { d \in Offering("IP") : DeviceURL(d) = f.loc }
        IN  ((Done(c, "Discover") \/ Done(c, "Load")) /\ f.err = Nil) =>
                /\ handle[c] = f.igd
                /\ ppp # {} =>
                      /\ Len(f.pppclients) > 0
                      /\ f.igd = f.pppclients[1]
                      /\ f.igd.kind = "PPP" /\ f.igd.dev \in ppp
                /\ (ppp = {} /\ ip # {}) =>
                      /\ Len(f.ipclients) > 0
                      /\ f.igd = f.ipclients[1]
                      /\ f.igd.kind = "IP" /\ f.igd.dev \in ip
                /\ ppp \cup ip # {}

\* Discover and then Load have each chosen among a non-empty PPP list and a
\* non-empty IP list.
C6_Witness ==
    \E c \in Callers :
        /\ Done(c, "Load") /\ frame[c].err = Nil
        /\ ByURL(frame[c].loc, "PPP") # <<>> /\ ByURL(frame[c].loc, "IP") # <<>>
        /\ prev[c].op = "Discover" /\ prev[c].err = Nil
        /\ Len(prev[c].pppclients) = 2
        /\ Offering("IP") # {}

\* C7: Discover fails, with the no-gateway error, exactly when neither search
\* yields a device; otherwise it returns one handle, bound to an element of
\* one of the search results, however many devices answered.
C7_DiscoverFailsIffNothingFound ==
    \A c \in Callers :
        Done(c, "Discover") =>
            LET f == frame[c]
                found == { f.pppclients[i] : i \in 1..Len(f.pppclients) }
                           \cup { f.ipclients[i] : i \in 1..Len(f.ipclients) }
            IN  /\ f.err \in {Nil, ErrNoGateway}
                /\ f.err = ErrNoGateway <=> found = {}
                /\ f.err = ErrNoGateway <=> (Offering("PPP") \cup Offering("IP") = {})
                /\ f.err = Nil => f.igd \in found /\ f.igd.dev \in network
                /\ f.err # Nil => f.igd = NoClient

\* Discover has failed after both searches came back empty.
C7_Witness ==
    \E c \in Callers :
        /\ Done(c, "Discover")
        /\ frame[c].err = ErrNoGateway
        /\ Len(frame[c].calls) = 2

\* C8: Load fails with the parse error when url.Parse rejects the location,
\* and then asks for no clients; it fails with the no-gateway error when the
\* URL yields neither PPP nor IP clients; otherwise it returns a handle.  It
\* never searches the network.
C8_LoadErrors ==
    \A c \in Callers :
        LET f == frame[c]
            parsed == url_Parse(f.rawurl)
        IN  /\ f.op = "Load" =>
                  \A i \in 1..Len(f.calls) : f.calls[i].action = "ByURL"
            /\ Done(c, "Load") =>
                  /\ parsed.err # "nil" =>
                        f.err = <<parsed.err>> /\ f.calls = <<>> /\ f.igd = NoClient
                  /\ (parsed.err = "nil" /\ ByURL(parsed.url, "PPP") = <<>>
                         /\ ByURL(parsed.url, "IP") = <<>>) =>
                        f.err = ErrNoGatewayAt(f.rawurl) /\ f.igd = NoClient
                  /\ (parsed.err = "nil" /\ (ByURL(parsed.url, "PPP") # <<>>
                         \/ ByURL(parsed.url, "IP") # <<>>)) =>
                        f.err = Nil /\ f.igd # NoClient /\ f.igd.Location = parsed.url

\* Load has rejected a location that does not parse.
C8_Witness ==
    \E c \in Callers :
        /\ Done(c, "Load")
        /\ url_Parse(frame[c].rawurl).err # "nil"
        /\ frame[c].err # Nil

\* C9: for a handle h from Discover or Load, Load(h.Location()) succeeds and
\* gives a handle on the same device with the same Location(); ExternalIP on
\* it succeeds, on a router that answers, with that router's address.
C9_LocationRoundTrip ==
    \A c \in Callers :
        LET f == frame[c]
            g == prev[c]
        IN  /\ (Done(c, "Load") /\ f.u # NoClient /\ f.rawurl = Location(f.u)) =>
                  /\ f.err = Nil
                  /\ f.igd.dev = f.u.dev
                  /\ Location(f.igd) = Location(f.u)
                  /\ handle[c] = f.igd
            /\ ( /\ Done(c, "ExternalIP") /\ reliable
                  /\ g.op = "Load" /\ g.u # NoClient /\ g.rawurl = Location(g.u)
                  /\ f.u = g.igd ) =>
                  /\ f.err = Nil
                  /\ f.ip = DeviceExternalIP(g.u.dev)

\* ExternalIP has succeeded on the handle Load gave for the Location() of the
\* handle the caller held, whose device advertised its location otherwise
\* than Location() spells it.
C9_Witness ==
    \E c \in Callers :
        /\ Done(c, "ExternalIP") /\ frame[c].err = Nil
        /\ prev[c].op = "Load" /\ prev[c].u # NoClient
        /\ prev[c].rawurl = Location(prev[c].u)
        /\ prev[c].rawurl # DeviceLocation(prev[c].u.dev)
        /\ frame[c].u = prev[c].igd

\* What Discover can return when it runs alone on this network.
DiscoverAlone ==
    IF Offering("PPP") # {} THEN { s[1] : s \in Search("PPP") }
    ELSE { s[1] : s \in Search("IP") }

\* A step of Discover by caller c leaves every other caller's handle, frame
\* and position, and the rest of the state, as they were.
C10_DiscoverTouchesOwnState ==
    \A c \in Callers :
        (DiscoverPPP(c) \/ DiscoverIP(c)) =>
            /\ \A o \in Callers \ {c} :
                  handle'[o] = handle[o] /\ frame'[o] = frame[o] /\ pc'[o] = pc[o]
            /\ UNCHANGED <<network, reliable, host, table>>

\* Every Discover that has returned while a gateway is on the network has
\* succeeded with a handle Discover can return when it runs alone, and a
\* Discover between its searches holds the result of its own first search.
C10_DiscoverResultAsAlone ==
    \A c \in Callers :
        /\ (Done(c, "Discover") /\ Offering("PPP") \cup Offering("IP") # {}) =>
              /\ frame[c].err = Nil
              /\ frame[c].igd \in DiscoverAlone
              /\ handle[c] = frame[c].igd
        /\ pc[c] = "Discover_ip" => frame[c].pppclients \in Search("PPP")

\* C10: with a gateway on the network, concurrent calls of Discover all
\* succeed, each with a handle of its own that is one Discover can return
\* when it runs alone: the calls share no state, each making its own searches.
C10_ConcurrentDiscover ==
    [] C10_DiscoverResultAsAlone /\ [][C10_DiscoverTouchesOwnState]_vars

\* Two calls of Discover are between their searches at once, on a network
\* with a gateway, one of the callers having succeeded with Discover before.
C10_Witness ==
    /\ \A c \in Callers : pc[c] = "Discover_ip"
    /\ Offering("IP") # {}
    /\ \E c \in Callers : prev[c].op = "Discover" /\ prev[c].err = Nil

\* ------------------------------------------------------------------------
\* getInternalIP alone, over device addresses and interface configurations
\* ------------------------------------------------------------------------

\* The hosts of the base URLs of the devices getInternalIP is tried on.
ResolverHosts ==
    { <<"192.168.1.1", ":", "5000">>,
      <<"192.168.1.254", ":", "80">>,
      <<"10.0.0.1", ":", "49152">>,
      <<"192.168.1.254">>,
      <<"router.lan", ":", "80">> }

\* The handles getInternalIP is tried on.
ResolverClients ==
    { Client("d1", "PPP", [Scheme |-> "http", Host |-> h, Path |-> <<"/">>]) :
        h \in ResolverHosts }

\* The interface configurations getInternalIP is tried on.
ResolverConfigs ==
    HostConfigs \cup
    { [ifacesErr |-> FALSE, addrsErrAt |-> 0,
       ifaces |-> << <<IPNet(<<192, 168, 1, 60>>, 24)>>,
                     <<IPNet(<<192, 168, 1, 50>>, 24)>> >>],
      [ifacesErr |-> FALSE, addrsErrAt |-> 2,
       ifaces |-> << <<IPNet(<<192, 168, 1, 50>>, 24)>>,
                     <<IPNet(<<192, 168, 1, 60>>, 24)>> >>],
      [ifacesErr |-> FALSE, addrsErrAt |-> 1,
       ifaces |-> << <<IPNet(<<192, 168, 1, 70>>, 24)>> >>] }

InitResolve ==
    /\ network = {}
    /\ reliable = TRUE
    /\ host \in ResolverConfigs
    /\ table = [d \in Devices |-> {}]
    /\ pc = [c \in Callers |-> "idle"]
    /\ handle \in [Callers -> ResolverClients]
    /\ frame = [c \in Callers |-> NoFrame]
    /\ prev = [c \in Callers |-> NoFrame]
    /\ left = 0

\* A call of getInternalIP on caller c's handle.
Resolve(c) ==
    /\ pc[c] = "idle"
    /\ frame[c].op = None
    /\ LET r == getInternalIP(handle[c], host)
       IN  frame' = [frame EXCEPT ![c] =
                [NoFrame EXCEPT !.op = "getInternalIP", !.u = handle[c],
                                !.ip = r.ip, !.err = r.err]]
    /\ UNCHANGED <<network, reliable, host, table, pc, handle, prev, left>>

NextResolve == \E c \in Callers : Resolve(c)

SpecResolve == InitResolve /\ [][NextResolve]_vars

\* The device address getInternalIP derives for client u (the nil IP if none).
DeviceIP(u) == ParseIP(SplitHostPort(URLBase(u).Host).host)

\* The positions <<interface, address>> of the local networks of h that
\* contain devIP.
Matches(h, devIP) ==
    UNION { { <<i, j>> : j \in { k \in 1..Len(h.ifaces[i]) :
                                    /\ h.ifaces[i][k].Type = "IPNet"
                                    /\ Contains(h.ifaces[i][k], devIP) } } :
            i \in 1..Len(h.ifaces) }

\* The first of a non-empty set of positions, by interface and then address.
FirstPosition(M) ==
    CHOOSE p \in M : \A q \in M : p[1] < q[1] \/ (p[1] = q[1] /\ p[2] <= q[2])

\* What the resolver is to give for a device address on a host whose
\* interfaces are enumerated without error.
Resolved(c, h, devIP) ==
    LET M == Matches(h, devIP)
    IN  /\ M # {} =>
              /\ frame[c].err = Nil
              /\ frame[c].ip = IPString(h.ifaces[FirstPosition(M)[1]][FirstPosition(M)[2]].IP)
        /\ M = {} => frame[c].err = ErrInternalIP /\ frame[c].ip = ""

\* C11 (as amended): given a device address, getInternalIP returns the first
\* local address, in interface and then address order, whose network contains
\* it, and fails with the could-not-determine-internal-IP error when no local
\* network contains it (a host without interfaces included), provided the
\* enumeration does not fail first: when net.Interfaces fails, or Addrs fails
\* for an interface at or before the first match, that error is returned.
C11_ResolverFirstMatch ==
    \A c \in Callers :
        (Done(c, "getInternalIP") /\ Len(DeviceIP(frame[c].u)) # 0) =>
            LET M == Matches(host, DeviceIP(frame[c].u))
                failsAt == host.addrsErrAt
            IN  IF host.ifacesErr
                THEN frame[c].err = ErrInterfaces /\ frame[c].ip = ""
                ELSE IF /\ failsAt \in 1..Len(host.ifaces)
                        /\ (M = {} \/ failsAt <= FirstPosition(M)[1])
                THEN frame[c].err = ErrAddrs /\ frame[c].ip = ""
                ELSE Resolved(c, host, DeviceIP(frame[c].u))

\* C11 as stated: the first containing local address, or else the
\* could-not-determine-internal-IP error, always.
C11_ResolverAlways ==
    \A c \in Callers :
        (Done(c, "getInternalIP") /\ Len(DeviceIP(frame[c].u)) # 0) =>
            Resolved(c, host, DeviceIP(frame[c].u))

\* getInternalIP has returned the first of two local addresses, of different
\* interfaces, whose networks contain the device address.
C11_Witness ==
    \E c \in Callers :
        /\ Done(c, "getInternalIP")
        /\ frame[c].err = Nil
        /\ \E p, q \in Matches(host, DeviceIP(frame[c].u)) :
              /\ p[1] < q[1]
              /\ frame[c].ip = IPString(host.ifaces[p[1]][p[2]].IP)
              /\ frame[c].ip # IPString(host.ifaces[q[1]][q[2]].IP)

\* ------------------------------------------------------------------------
\* Repair, repetition and error propagation
\* ------------------------------------------------------------------------

\* Table tbl holds a TCP entry and no UDP entry for the port.
OnlyTCP(tbl, port) ==
    Entries(tbl, port, "TCP") # {} /\ Entries(tbl, port, "UDP") = {}

\* Frame g is a Forward of the port on client u that failed at the UDP step.
FailedAtUDP(g, u, port) ==
    /\ g.op = "Forward" /\ g.u = u /\ g.port = port
    /\ g.err = Fault("AddPortMapping", "UDP")

\* C12: when a Forward(p) has failed at its UDP call and left the router with
\* only the TCP entry of p, a following Forward(p) that returns nil, or a
\* Clear(p) that returns nil followed by a Forward(p) that returns nil, ends
\* with exactly the TCP and the UDP entry that the last Forward asked for.
C12_RepairAfterUDPFailure ==
    \A c \in Callers :
        LET f == frame[c]
            g == prev[c]
        IN  ( /\ Done(c, "Forward") /\ f.err = Nil
              /\ \/ FailedAtUDP(g, f.u, f.port) /\ OnlyTCP(f.before, f.port)
                 \/ /\ g.op = "Clear" /\ g.u = f.u /\ g.port = f.port
                    /\ g.err = Nil /\ OnlyTCP(g.before, f.port) )
            => /\ Entries(table[f.u.dev], f.port, "TCP") =
                     { Wanted(f.port, "TCP", f.ip, f.desc) }
               /\ Entries(table[f.u.dev], f.port, "UDP") =
                     { Wanted(f.port, "UDP", f.ip, f.desc) }

\* A Forward has returned nil right after a Forward of the same port that
\* failed at UDP and left only the TCP entry.
C12_Witness ==
    \E c \in Callers :
        /\ Done(c, "Forward") /\ frame[c].err = Nil
        /\ FailedAtUDP(prev[c], frame[c].u, frame[c].port)
        /\ OnlyTCP(frame[c].before, frame[c].port)
        /\ Len(frame[c].calls) = 2

\* A Forward has returned nil after a Clear of the same port that returned
\* nil on a router left with only the TCP entry.
C12_WitnessClear ==
    \E c \in Callers :
        /\ Done(c, "Forward") /\ frame[c].err = Nil
        /\ prev[c].op = "Clear" /\ prev[c].err = Nil
        /\ prev[c].port = frame[c].port
        /\ OnlyTCP(prev[c].before, frame[c].port)

\* Frame f repeats frame g: a Forward of the same port on the same handle
\* that resolved the same internal IP, after g returned nil.
Repeats(f, g) ==
    /\ f.op = "Forward" /\ g.op = "Forward"
    /\ g.err = Nil
    /\ f.u = g.u /\ f.port = g.port
    /\ f.ip # "" /\ f.ip = g.ip

\* C13: a Forward of the same port that resolves the same internal IP as the
\* Forward before it, which returned nil, ends in every outcome with exactly
\* one TCP and one UDP entry for the port, both still targeting that internal
\* IP and port; when it returns nil they are the entries it asked for, and
\* when the description is the same too the router's table is as it was.
C13_ForwardIdempotent ==
    \A c \in Callers :
        LET f == frame[c]
            g == prev[c]
        IN  (Done(c, "Forward") /\ Repeats(f, g)) =>
              LET now == table[f.u.dev]
              IN  /\ \A proto \in {"TCP", "UDP"} :
                        /\ Cardinality(Entries(now, f.port, proto)) = 1
                        /\ \A e \in Entries(now, f.port, proto) :
                              /\ e.NewInternalClient = f.ip
                              /\ e.NewInternalPort = f.port
                              /\ e.NewEnabled
                              /\ e.NewPortMappingDescription \in {f.desc, g.desc}
                  /\ f.err = Nil =>
                        PortEntries(now, f.port) =
                            { Wanted(f.port, "TCP", f.ip, f.desc),
                              Wanted(f.port, "UDP", f.ip, f.desc) }
                  /\ f.desc = g.desc => now = f.before

\* A repeated Forward has failed at its UDP call after its TCP call replaced
\* the earlier TCP entry.
C13_Witness ==
    \E c \in Callers :
        /\ Done(c, "Forward")
        /\ Repeats(frame[c], prev[c])
        /\ frame[c].err = Fault("AddPortMapping", "UDP")
        /\ frame[c].desc # prev[c].desc
        /\ Wanted(frame[c].port, "TCP", frame[c].ip, frame[c].desc)
                \in table[frame[c].u.dev]

\* A collaborator call that returned an error.  A search that found nothing
\* is not one: it returns an empty list of clients and no error.
CallFailed(call) == call.action # "Search" /\ ~ call.ok

\* The operations of the engine that call collaborators.
EngineOps == {"Discover", "Load", "ExternalIP", "Forward", "Clear"}

\* C14 (as amended): the error of a remote action (GetExternalIPAddress,
\* AddPortMapping, DeletePortMapping), of url.Parse and of getInternalIP is
\* returned to the caller of the operation, which returns nil only if every
\* such call succeeded.  The failures of the attempts to find clients are not
\* returned: Discover and Load return nil exactly when their last attempt
\* yields a client, whatever the earlier attempt returned, and the fixed
\* no-gateway error otherwise.
C14_FailuresReturned ==
    \A c \in Callers :
        LET f == frame[c]
            n == Len(f.calls)
        IN  /\ (pc[c] = "idle" /\ f.op \in {"ExternalIP", "Forward", "Clear"}) =>
                  /\ f.err = Nil => \A i \in 1..n : f.calls[i].ok
                  /\ \A i \in 1..n :
                        ~ f.calls[i].ok =>
                            i = n /\ f.err = Fault(f.calls[i].action, f.calls[i].arg)
                  /\ f.op = "ExternalIP" => n = 1
                  /\ f.op = "Forward" =>
                        LET r == getInternalIP(f.u, host)
                        IN  r.err # Nil => f.err = r.err /\ n = 0
            /\ Done(c, "Load") =>
                  LET parsed == url_Parse(f.rawurl)
                  IN  IF parsed.err # "nil"
                      THEN f.err = <<parsed.err>> /\ n = 0
                      ELSE /\ n >= 1
                           /\ f.err = Nil <=> f.calls[n].ok
                           /\ f.err # Nil => f.err = ErrNoGatewayAt(f.rawurl)
            /\ Done(c, "Discover") =>
                  /\ n >= 1
                  /\ f.err = Nil <=> f.calls[n].ok
                  /\ f.err # Nil => f.err = ErrNoGateway

\* C14 as stated: an operation that returned nil made no collaborator call
\* that failed.
C14_NoFailureSuppressed ==
    \A c \in Callers :
        (pc[c] = "idle" /\ frame[c].op \in EngineOps /\ frame[c].err = Nil) =>
            \A i \in 1..Len(frame[c].calls) : ~ CallFailed(frame[c].calls[i])

\* Load has returned a gateway and a nil error although its request for the
\* PPP clients at the URL had failed.
C14_Witness ==
    \E c \in Callers :
        /\ Done(c, "Load")
        /\ frame[c].err = Nil
        /\ Len(frame[c].calls) = 2
        /\ CallFailed(frame[c].calls[1])
        /\ handle[c] = frame[c].igd /\ handle[c].kind = "IP"

\* How many times frame f called the action with the argument.
Count(f, action, arg) ==
    Cardinality({ i \in 1..Len(f.calls) :
                    f.calls[i].action = action /\ f.calls[i].arg = arg })

\* C15: no remote action is made twice within one operation.  An ExternalIP
\* makes exactly one GetExternalIPAddress call; a Forward makes only
\* AddPortMapping calls, at most one per protocol and so at most two; a Clear
\* makes only DeletePortMapping calls, at most one per protocol; and a call
\* that failed is the last call of its operation.
C15_NoRetries ==
    \A c \in Callers :
        LET f == frame[c]
            n == Len(f.calls)
        IN  /\ f.op = "ExternalIP" =>
                  /\ n = 1 /\ Count(f, "GetExternalIPAddress", "") = 1
                  /\ pc[c] = "idle"
            /\ f.op = "Forward" =>
                  /\ n <= 2
                  /\ \A i \in 1..n : f.calls[i].action = "AddPortMapping"
                  /\ \A proto \in {"TCP", "UDP"} : Count(f, "AddPortMapping", proto) <= 1
            /\ f.op = "Clear" =>
                  /\ n <= 2
                  /\ \A i \in 1..n : f.calls[i].action = "DeletePortMapping"
                  /\ \A proto \in {"TCP", "UDP"} : Count(f, "DeletePortMapping", proto) <= 1
            /\ f.op \in {"ExternalIP", "Forward", "Clear"} =>
                  \A i \in 1..n : ~ f.calls[i].ok => (i = n /\ pc[c] = "idle")

\* A Forward has returned after a single AddPortMapping call, which failed,
\* following an ExternalIP whose single call failed too.
C15_Witness ==
    \E c \in Callers :
        /\ Done(c, "Forward")
        /\ Made(frame[c]) = << <<"AddPortMapping", "TCP", FALSE>> >>
        /\ prev[c].op = "ExternalIP"
        /\ Made(prev[c]) = << <<"GetExternalIPAddress", "", FALSE>> >>

\* ------------------------------------------------------------------------
\* Two callers on one handle
\* ------------------------------------------------------------------------

\* Operations the callers of the shared handle may start.
MaxSharedOps == 2

\* The tables a router may hold for the handle u when the callers begin:
\* nothing, or what an earlier Forward(9001, "upnp test") on u has registered.
SharedTables(u, h) ==
    LET r == getInternalIP(u, h)
    IN  { [d \in Devices |-> {}] } \cup
        ( IF r.err # Nil THEN {}
          ELSE { [d \in Devices |->
                    IF d = u.dev
                    THEN { Mapping("", 9001, proto, 9001, r.ip, TRUE, "upnp test", 0) :
                             proto \in {"TCP", "UDP"} }
                    ELSE {}] } )

\* Both callers hold the handle that one Discover returned.
InitShared ==
    /\ network \in Networks \ {{}}
    /\ reliable \in BOOLEAN
    /\ host \in HostConfigs
    /\ pc = [c \in Callers |-> "idle"]
    /\ \E u \in DiscoverAlone :
          /\ handle = [c \in Callers |-> u]
          /\ table \in SharedTables(u, host)
    /\ frame = [c \in Callers |-> NoFrame]
    /\ prev = [c \in Callers |-> NoFrame]
    /\ left = MaxSharedOps

\* A step of a port operation of caller c on the handle.
SharedStep(c) ==
    \/ ForwardResolve(c)
    \/ ForwardTCP(c)
    \/ ForwardUDP(c)
    \/ ClearTCP(c)
    \/ ClearUDP(c)

NextShared == \E c \in Callers : SharedStep(c)

SpecShared == InitShared /\ [][NextShared]_vars

\* The entries of frame f's port that the router holds when the calls f made
\* are the only ones made for that port since f began.
OwnEffect(f) ==
    LET ok(proto) == \E i \in 1..Len(f.calls) : f.calls[i].arg = proto /\ f.calls[i].ok
        kept == { e \in PortEntries(f.before, f.port) : ~ ok(e.NewProtocol) }
    IN  IF f.op = "Clear" THEN kept
        ELSE kept \cup { Wanted(f.port, proto, f.ip, f.desc) :
                            proto \in { q \in {"TCP", "UDP"} : ok(q) } }

\* Frame g is not of an operation on the port.
OffPort(g, port) == g.op \in {"Forward", "Clear"} => g.port # port

\* The operation of caller c has returned what it returns alone given the
\* router's answers to its own calls, and the router holds for its port what
\* its own calls make of the entries it found.
AsAlone(c) ==
    LET f == frame[c]
        n == Len(f.calls)
        r == getInternalIP(f.u, host)
    IN  /\ PortEntries(table[f.u.dev], f.port) = OwnEffect(f)
        /\ IF f.op = "Forward" /\ r.err # Nil
           THEN f.err = r.err /\ n = 0
           ELSE /\ n >= 1
                /\ f.err = IF f.calls[n].ok THEN Nil
                           ELSE Fault(f.calls[n].action, f.calls[n].arg)
                /\ f.calls[n].ok => n = 2
        /\ reliable =>
              IF f.op = "Clear"
              THEN f.err = Nil /\ PortEntries(table[f.u.dev], f.port) = {}
              ELSE IF r.err # Nil
              THEN f.err = r.err /\ PortEntries(table[f.u.dev], f.port) = PortEntries(f.before, f.port)
              ELSE /\ f.err = Nil
                   /\ PortEntries(table[f.u.dev], f.port) =
                         { Wanted(f.port, "TCP", r.ip, f.desc),
                           Wanted(f.port, "UDP", r.ip, f.desc) }

\* A Forward or Clear by caller c has returned while the other callers of the
\* handle have, since before it began, worked on other ports only.
OnOwnPort(c) ==
    /\ pc[c] = "idle"
    /\ frame[c].op \in {"Forward", "Clear"}
    /\ \A o \in Callers \ {c} :
          /\ prev[o].op = None
          /\ OffPort(frame[o], frame[c].port)

\* A step of caller c, which shows in c's frame or position, leaves the other
\* callers' frames and positions alone, and changes the router's entries for
\* the port of c's operation only.
StepsOnOwnPort ==
    \A c \in Callers :
        (frame'[c] # frame[c] \/ pc'[c] # pc[c]) =>
            /\ \A o \in Callers \ {c} : frame'[o] = frame[o] /\ pc'[o] = pc[o]
            /\ handle' = handle
            /\ table' # table =>
                  \A d \in Devices : \A port \in Ports :
                      PortEntries(table'[d], port) # PortEntries(table[d], port) =>
                          d = frame'[c].u.dev /\ port = frame'[c].port

\* C16: operations issued at the same time on one handle for different ports
\* do not interfere.  Whatever the interleaving of their remote actions, a
\* Forward or Clear of port p returns what it returns alone and leaves for p
\* the entries it leaves alone, when the other caller works on ports other
\* than p; and no step of an operation touches another caller's operation or
\* the entries of another port.
C16_DifferentPortsIndependent ==
    /\ [] (\A c \in Callers : OnOwnPort(c) => AsAlone(c))
    /\ [][StepsOnOwnPort]_vars

\* Two Forwards of different ports on the one handle have both returned nil,
\* each begun before the other's first mapping was made.
C16_Witness ==
    \E c, o \in Callers :
        /\ c # o /\ handle[c] = handle[o]
        /\ Done(c, "Forward") /\ Done(o, "Forward")
        /\ frame[c].port # frame[o].port
        /\ frame[c].err = Nil /\ frame[o].err = Nil
        /\ PortEntries(frame[c].before, frame[o].port) = {}
        /\ PortEntries(frame[o].before, frame[c].port) = {}
        /\ OnOwnPort(c) /\ OnOwnPort(o)

\* ------------------------------------------------------------------------
\* Forward, Clear and the resolver
\* ------------------------------------------------------------------------

\* The errors getInternalIP returns.
ResolverErrors == {ErrRouterIP, ErrInterfaces, ErrAddrs, ErrInternalIP}

\* C17: when getInternalIP fails for the handle (the device address does not
\* parse, the interfaces or their addresses cannot be listed, or no local
\* network contains the device address), Forward returns that error, makes
\* no AddPortMapping call for either protocol and leaves the router's table as
\* it was.
C17_ForwardFailsBeforeRouter ==
    \A c \in Callers :
        LET f == frame[c]
            r == getInternalIP(f.u, host)
        IN  (f.op = "Forward" /\ r.err # Nil) =>
                /\ pc[c] = "idle"
                /\ r.err \in ResolverErrors
                /\ f.err = r.err
                /\ f.calls = <<>>
                /\ f.ip = ""
                /\ table[f.u.dev] = f.before

\* A Forward on a gateway that answers has failed because no network of the
\* host's interfaces contains the device address.
C17_Witness ==
    \E c \in Callers :
        /\ Done(c, "Forward")
        /\ frame[c].err = ErrInternalIP
        /\ Len(host.ifaces) > 0
        /\ TRUE \in Outcomes(frame[c].u)
        /\ frame[c].calls = <<>>

\* ------------------------------------------------------------------------
\* One caller on a host whose interface configuration changes
\* ------------------------------------------------------------------------

\* Operations the caller may start while the configuration changes.
MaxHostOps == 3

InitHost == Setup /\ left = MaxHostOps

\* The host's interfaces are reconfigured: what net.Interfaces and Addrs
\* return from now on.
ChangeHost ==
    /\ host' \in HostConfigs \ {host}
    /\ UNCHANGED <<network, reliable, table, pc, handle, frame, prev, left>>

NextHost == Step("c1") \/ ChangeHost

SpecHost == InitHost /\ [][NextHost]_vars

\* A Forward that caller c starts takes its internal IP, or its failure, from
\* getInternalIP on the host's configuration at that moment.
ForwardResolvesNow ==
    \A c \in Callers :
        (pc[c] = "idle" /\ left' # left /\ frame'[c].op = "Forward") =>
            LET r == getInternalIP(handle[c], host)
            IN  /\ frame'[c].ip = r.ip
                /\ frame'[c].err = r.err
                /\ r.err # Nil => pc'[c] = "idle" /\ table' = table

\* The entries a Forward has added carry the internal IP it resolved.
ForwardRegistersResolved ==
    \A c \in Callers :
        frame[c].op = "Forward" =>
            \A i \in 1..Len(frame[c].calls) :
                frame[c].calls[i].ok =>
                    Wanted(frame[c].port, frame[c].calls[i].arg,
                           frame[c].ip, frame[c].desc) \in table[frame[c].u.dev]

\* C18: the internal address is computed anew by every Forward and not kept
\* in the handle: each Forward resolves against the interface configuration
\* the host has when it is called, registers the address so resolved, and
\* fails with the resolver's error when that configuration resolves nothing.
C18_ForwardResolvesEachTime ==
    /\ [] ForwardRegistersResolved
    /\ [][ForwardResolvesNow]_vars

\* After the host was reconfigured, a second Forward of the same port on the
\* same handle has registered another internal IP than the first.
C18_Witness ==
    \E c \in Callers :
        /\ Done(c, "Forward") /\ frame[c].err = Nil
        /\ prev[c].op = "Forward" /\ prev[c].err = Nil
        /\ prev[c].u = frame[c].u /\ prev[c].port = frame[c].port
        /\ prev[c].ip # frame[c].ip
        /\ frame[c].ip = getInternalIP(frame[c].u, host).ip
        /\ \A e \in PortEntries(table[frame[c].u.dev], frame[c].port) :
              e.NewInternalClient = frame[c].ip

\* A Forward has failed on a handle on which the Forward before it succeeded,
\* because the host's new configuration has no network with the device in it.
C18_WitnessFails ==
    \E c \in Callers :
        /\ Done(c, "Forward") /\ frame[c].err = ErrInternalIP
        /\ prev[c].op = "Forward" /\ prev[c].err = Nil
        /\ prev[c].u = frame[c].u

\* C19: Clear does not call getInternalIP and does not depend on the host's
\* interfaces.  Whatever the configuration, a Clear resolves no internal IP,
\* makes DeletePortMapping calls only, naming the port and the protocol (TCP,
\* then UDP), returns nil or the error of the call that failed, and removes
\* the entries whose delete succeeded; on a router that answers every action
\* it returns nil and leaves no entry for the port.
C19_ClearIgnoresResolver ==
    \A c \in Callers :
        LET f == frame[c]
            n == Len(f.calls)
        IN  f.op = "Clear" =>
              /\ f.ip = ""
              /\ n \in {1, 2}
              /\ \A i \in 1..n :
                    /\ f.calls[i].action = "DeletePortMapping"
                    /\ f.calls[i].arg = <<"TCP", "UDP">>[i]
              /\ f.err = IF f.calls[n].ok THEN Nil
                         ELSE Fault("DeletePortMapping", f.calls[n].arg)
              /\ f.err \notin ResolverErrors
              /\ PortEntries(table[f.u.dev], f.port) = OwnEffect(f)
              /\ (pc[c] = "idle" /\ reliable) =>
                    f.err = Nil /\ PortEntries(table[f.u.dev], f.port) = {}

\* A Clear has returned nil and removed the two entries of a port on a host
\* whose configuration no longer resolves an internal IP for the handle.
C19_Witness ==
    \E c \in Callers :
        /\ Done(c, "Clear") /\ frame[c].err = Nil
        /\ getInternalIP(frame[c].u, host).err = ErrInternalIP
        /\ Cardinality(PortEntries(frame[c].before, frame[c].port)) = 2
        /\ PortEntries(table[frame[c].u.dev], frame[c].port) = {}

\* The base host of client u has no port: SplitHostPort fails on it.
Portless(u) == SplitHostPort(URLBase(u).Host).err # "nil"

\* C20: getInternalIP splits the base host into host and port and ignores the
\* error of the split.  A base host without a port leaves it with an empty
\* host, which does not parse: getInternalIP fails with the error of the
\* router's address, whatever the host's interfaces are and even when the
\* base host is an IP address inside one of their networks, and Forward
\* returns that error without a call to the router.
C20_PortlessBaseHostFails ==
    \A c \in Callers :
        /\ (handle[c] # NoClient /\ Portless(handle[c])) =>
              /\ LastColon(URLBase(handle[c]).Host) = 0
              /\ SplitHostPort(URLBase(handle[c]).Host).host = <<>>
              /\ getInternalIP(handle[c], host) = [ip |-> "", err |-> ErrRouterIP]
        /\ (frame[c].op = "Forward" /\ Portless(frame[c].u)) =>
              /\ pc[c] = "idle"
              /\ frame[c].err = ErrRouterIP
              /\ frame[c].calls = <<>>
              /\ table[frame[c].u.dev] = frame[c].before

\* A Forward has failed with the error of the router's address on the
\* gateway at 192.168.1.254, advertised without a port, on a host with the
\* address 192.168.1.50/24.
C20_Witness ==
    \E c \in Callers :
        /\ Done(c, "Forward")
        /\ frame[c].err = ErrRouterIP
        /\ URLBase(frame[c].u).Host = <<"192.168.1.254">>
        /\ \E i \in 1..Len(host.ifaces) : \E j \in 1..Len(host.ifaces[i]) :
              /\ host.ifaces[i][j].Type = "IPNet"
              /\ Contains(host.ifaces[i][j], ParseIP(URLBase(frame[c].u).Host))
        /\ ~ host.ifacesErr /\ host.addrsErrAt = 0
        /\ TRUE \in Outcomes(frame[c].u)

====
